---- MODULE Spec2Model ----
(***************************************************************************)
(* A model of bot.py: the report-download bot.  run_bot is a pipeline of   *)
(* browser steps followed by save_download and send_email; the helpers     *)
(* pick_status_col_and_click_latest, save_download and send_email are      *)
(* operators computed the way the code computes them.  Python strings are  *)
(* sequences of one-character strings, so that strip, split, lower, suffix *)
(* and "in" are computed and not assumed.                                  *)
(***************************************************************************)
EXTENDS Integers, Sequences, FiniteSets, TLC

VARIABLES
    PORTAL_USER,    \* os.getenv("PORTAL_USER"): None or a string
    PORTAL_PASS,    \* os.getenv("PORTAL_PASS")
    EMAIL_TO,       \* os.getenv("EMAIL_TO", ""), a string
    pc,             \* position of the running routine
    steps,          \* the pipeline steps begun so far, in order
    error,          \* the exception that ended the routine, or NoError
    failedStep,     \* the step whose exception ended run_bot, or "none"
    playwright,     \* "none", "running" (inside the with block), "stopped"
    browser,        \* "none", "open", "closed" (browser.close() executed)
    context,        \* "none", "open", "closed" (context.close() executed)
    gotos,          \* number of page.goto calls made
    selects,        \* the page's <select> elements: TRUE when one offers the report
    nativeTried,    \* select_option was attempted on a <select>
    customTried,    \* the custom dropdown strategy was attempted
    dateSet,        \* date_set after step 4
    download,       \* the Download object obtained, or NoDownload
    fs,             \* files written under DOWNLOAD_DIR: path -> content
    saved,          \* the path save_download returned, or NoPath
    smtpLog,        \* the SMTP calls made by send_email, in order
    sent,           \* send_message completed
    subtype,        \* the MIME subtype given to add_attachment, or "none"
    recipients,     \* the list assigned to msg["To"]
    headers,        \* the texts of the table's thead th cells
    cell,           \* the controls of the Status cell of the first row, or NoRow
    status_idx,     \* the resolved column index
    clicked,        \* the control types clicked, in order
    pickResult      \* what pick_status_col_and_click_latest came to

cfgVars   == <<PORTAL_USER, PORTAL_PASS, EMAIL_TO>>
runVars   == <<pc, steps, error, failedStep, playwright, browser, context, gotos,
               selects, nativeTried, customTried, dateSet>>
fileVars  == <<download, fs, saved>>
mailVars  == <<smtpLog, sent, subtype, recipients>>
pickVars  == <<headers, cell, status_idx, clicked, pickResult>>
vars      == <<cfgVars, runVars, fileVars, mailVars, pickVars>>

----------------------------------------------------------------------------
(* Bounds of the model *)

MaxToLen   == 3     \* longest EMAIL_TO string drawn
MaxCols    == 3     \* most header columns of the results table
MaxEntries == 2     \* most entries of a downloaded zip archive
MaxSelects == 2     \* most <select> elements on the reports page

NoError    == "NoError"

----------------------------------------------------------------------------
(* Python str and pathlib operations *)

Space == " "

\* str.lower(), on the letters the model uses
LowerChar(c) ==
    CASE c = "S" -> "s" [] c = "T" -> "t" [] c = "A" -> "a" [] c = "U" -> "u"
      [] c = "P" -> "p" [] c = "D" -> "d" [] c = "F" -> "f" [] c = "Z" -> "z"
      [] c = "I" -> "i" [] c = "X" -> "x" [] c = "L" -> "l" [] c = "N" -> "n"
      [] OTHER -> c

Lower(s) == [i \in 1..Len(s) |-> LowerChar(s[i])]

RECURSIVE LStrip(_)
LStrip(s) == IF s = <<>> \/ Head(s) # Space THEN s ELSE LStrip(Tail(s))

RECURSIVE RStrip(_)
RStrip(s) ==
    IF s = <<>> \/ s[Len(s)] # Space THEN s ELSE RStrip(SubSeq(s, 1, Len(s) - 1))

\* str.strip()
Strip(s) == RStrip(LStrip(s))

\* str.find(c) + 1: the first position of character c in s, 0 when absent
Find(s, c) ==
    IF \E i \in 1..Len(s) : s[i] = c
    THEN CHOOSE i \in 1..Len(s) : s[i] = c /\ \A j \in 1..(i - 1) : s[j] # c
    ELSE 0

\* str.rfind(c) + 1
RFind(s, c) ==
    IF \E i \in 1..Len(s) : s[i] = c
    THEN CHOOSE i \in 1..Len(s) : s[i] = c /\ \A j \in (i + 1)..Len(s) : s[j] # c
    ELSE 0

\* str.split(sep): "".split(",") = [""], ",".split(",") = ["", ""]
RECURSIVE Split(_, _)
Split(s, sep) ==
    LET i == Find(s, sep)
    IN  IF i = 0 THEN <<s>>
        ELSE <<SubSeq(s, 1, i - 1)>> \o Split(SubSeq(s, i + 1, Len(s)), sep)

\* needle in s
Contains(needle, s) ==
    \E i \in 1..(Len(s) - Len(needle) + 1) : SubSeq(s, i, i + Len(needle) - 1) = needle

\* s.endswith(suf)
EndsWith(s, suf) ==
    /\ Len(suf) <= Len(s)
    /\ SubSeq(s, Len(s) - Len(suf) + 1, Len(s)) = suf

\* Path(s).name: the final component, trailing slashes dropped
RECURSIVE PathName(_)
PathName(s) ==
    IF s # <<>> /\ s[Len(s)] = "/" THEN PathName(SubSeq(s, 1, Len(s) - 1))
    ELSE SubSeq(s, RFind(s, "/") + 1, Len(s))

\* PurePath.suffix of a file name: from the last dot, unless the dot is the
\* first or the last character
NameSuffix(name) ==
    LET i == RFind(name, ".")
    IN  IF 1 < i /\ i < Len(name) THEN SubSeq(name, i, Len(name)) ELSE <<>>

\* dest_dir / name, for a name without slashes
JoinPath(dir, name) == [dir |-> dir, name |-> name]

\* Path.suffix
Suffix(path) == NameSuffix(path.name)

DOWNLOAD_DIR == "downloads"

\* no path: the routine returned none
NoPath == [dir |-> "", name |-> <<>>]

\* os.getenv(name): None when the variable is unset, else its string
None        == [set |-> FALSE, val |-> <<>>]
EnvStr(s)   == [set |-> TRUE, val |-> s]

\* Python truth of an environment value: None and "" are false
Truthy(x) == x.set /\ x.val # <<>>

----------------------------------------------------------------------------
(* send_email *)

S_pdf  == <<".", "p", "d", "f">>
S_zip  == <<".", "z", "i", "p">>

SUBTYPE_PDF  == "pdf"
SUBTYPE_XLSX == "vnd.openxmlformats-officedocument.spreadsheetml.sheet"
SUBTYPE_BIN  == "octet-stream"

\* the guard of send_email: not EMAIL_TO.strip()
EmailSkipped(to) == Strip(to) = <<>>

\* [x.strip() for x in EMAIL_TO.split(",") if x.strip()]
Recipients(to) ==
    LET kept == SelectSeq(Split(to, ","), LAMBDA x : Strip(x) # <<>>)
    IN  [i \in 1..Len(kept) |-> Strip(kept[i])]

S_xlsx == <<".", "x", "l", "s", "x">>

\* mutant: a third, generic subtype for the other extensions
SubtypeThreeWay(attach_path) ==
    IF Lower(Suffix(attach_path)) = S_pdf THEN SUBTYPE_PDF
    ELSE IF Lower(Suffix(attach_path)) = S_xlsx THEN SUBTYPE_XLSX
    ELSE SUBTYPE_BIN

\* "pdf" if attach_path.suffix.lower() == ".pdf" else the spreadsheet subtype
Subtype(attach_path) ==
    IF Lower(Suffix(attach_path)) = S_pdf THEN SUBTYPE_PDF ELSE SUBTYPE_XLSX

\* What the SMTP server and the network do to one session: the call that
\* raises, or "none".
SmtpFaults == {"none", "connect", "starttls", "login", "send_message"}

SmtpCalls == <<"connect", "starttls", "login", "send_message">>

\* mutant: the SMTP block wrapped in try/except that swallows the error
SmtpSessionSwallow(rcpt, fault) ==
    LET bad  == IF fault # "none" THEN fault
                ELSE IF rcpt = <<>> THEN "send_message" ELSE "none"
        last == IF bad = "none" THEN Len(SmtpCalls)
                ELSE CHOOSE i \in 1..Len(SmtpCalls) : SmtpCalls[i] = bad
    IN  [log  |-> SubSeq(SmtpCalls, 1, last),
         sent |-> bad = "none",
         err  |-> NoError]

\* The with smtplib.SMTP(...) block: the calls made up to and including the
\* one that raises.  send_message raises SMTPRecipientsRefused when the
\* message names no recipient (smtplib.SMTP.sendmail).
SmtpSession(rcpt, fault) ==
    LET bad  == IF fault # "none" THEN fault
                ELSE IF rcpt = <<>> THEN "send_message" ELSE "none"
        last == IF bad = "none" THEN Len(SmtpCalls)
                ELSE CHOOSE i \in 1..Len(SmtpCalls) : SmtpCalls[i] = bad
    IN  [log  |-> SubSeq(SmtpCalls, 1, last),
         sent |-> bad = "none",
         err  |-> IF bad = "none" THEN NoError
                  ELSE IF fault = "none" THEN "SMTPRecipientsRefused"
                  ELSE "SMTPException"]

\* send_email(subject, body, attach_path) with EMAIL_TO = to, the files on
\* disk and the fault of the SMTP session
SendEmail(to, attach_path, files, fault) ==
    IF EmailSkipped(to)
    THEN [log |-> <<>>, sent |-> FALSE, subtype |-> "none",
          recipients |-> <<>>, err |-> NoError]
    ELSE IF attach_path \notin DOMAIN files
    THEN [log |-> <<>>, sent |-> FALSE, subtype |-> "none",
          recipients |-> Recipients(to), err |-> "FileNotFoundError"]
    ELSE LET s == SmtpSession(Recipients(to), fault)
         IN  [log |-> s.log, sent |-> s.sent, subtype |-> Subtype(attach_path),
              recipients |-> Recipients(to), err |-> s.err]

----------------------------------------------------------------------------
(* save_download *)

\* the file at path p holds content c
WriteFile(files, p, c) ==
    [q \in DOMAIN files \cup {p} |-> IF q = p THEN c ELSE files[q]]

\* zf.namelist()
NameList(entries) == [i \in 1..Len(entries) |-> entries[i].name]

\* mutant: the directory entries not filtered out
MembersUnfiltered(entries) == NameList(entries)

\* [m for m in zf.namelist() if not m.endswith("/")]
Members(entries) ==
    SelectSeq(NameList(entries), LAMBDA m : ~EndsWith(m, <<"/">>))

\* zf.open(name).read(): ZipFile.getinfo looks the name up in NameToInfo,
\* which keeps the last entry of that name
ZipRead(entries, name) ==
    LET i == CHOOSE i \in 1..Len(entries) :
                 /\ entries[i].name = name
                 /\ \A j \in (i + 1)..Len(entries) : entries[j].name # name
    IN  entries[i].data

FileData(d) == [kind |-> "data", data |-> d]
ZipData(es) == [kind |-> "zip", entries |-> es]

\* no Download object
NoDownload == [suggested_filename |-> <<>>, content |-> FileData(0)]

\* save_download(download, dest_dir) on the files already on disk: the
\* files afterwards, the path returned and the exception raised
SaveDownload(dl, dest_dir, files) ==
    LET out    == JoinPath(dest_dir, dl.suggested_filename)
        files1 == WriteFile(files, out, dl.content)
    IN  IF Lower(Suffix(out)) = S_zip
        THEN LET members == Members(dl.content.entries)
             IN  IF members = <<>>
                 THEN [fs |-> files1, ret |-> NoPath, err |-> "ZIP file is empty"]
                 ELSE LET first     == members[1]
                          extracted == JoinPath(dest_dir, PathName(first))
                      IN  [fs  |-> WriteFile(files1, extracted,
                                       FileData(ZipRead(dl.content.entries, first))),
                           ret |-> extracted,
                           err |-> NoError]
        ELSE [fs |-> files1, ret |-> out, err |-> NoError]

----------------------------------------------------------------------------
(* pick_status_col_and_click_latest *)

S_status == <<"s", "t", "a", "t", "u", "s">>

\* mutant: status_idx = i, the 0-based position
StatusIdxZeroBased(hs) ==
    LET hit(i) == Contains(S_status, Lower(Strip(hs[i])))
    IN  IF \E i \in 1..Len(hs) : hit(i)
        THEN (CHOOSE i \in 1..Len(hs) : hit(i) /\ \A j \in 1..(i - 1) : ~hit(j)) - 1
        ELSE Len(hs)

\* the header loop: the 1-based position of the first header whose stripped,
\* lowered text contains "status"; the header count when there is none
StatusIdx(hs) ==
    LET hit(i) == Contains(S_status, Lower(Strip(hs[i])))
    IN  IF \E i \in 1..Len(hs) : hit(i)
        THEN CHOOSE i \in 1..Len(hs) : hit(i) /\ \A j \in 1..(i - 1) : ~hit(j)
        ELSE Len(hs)

\* mutant: the button selector listed before the link selector
CandidatesButtonFirst == <<"button", "a", "i", "span">>

\* the control types of the candidate selectors, in the order of the list
Candidates == <<"a", "button", "i", "span">>

\* What a control of the cell does when clicked: "absent" (the locator
\* counts 0), "timeout" (expect_download raises PWTimeout), "download".
ControlStates == {"absent", "timeout", "download"}

ControlTypes == {"a", "button", "i", "span"}

\* a first row's cell: its controls by type; NoRow when tbody has no tr,
\* where every locator counts 0
NoRow == [row |-> FALSE, ctl |-> [t \in ControlTypes |-> "absent"]]

\* td:nth-child(idx) of the first row: nothing when idx is 0
CellAt(idx, c) == IF idx = 0 THEN NoRow ELSE c

ControlOf(c, sel) == c.ctl[sel]

COULD_NOT_TRIGGER == "Could not trigger download from the Status cell."

\* the for sel in candidates loop from candidate k on
RECURSIVE ClickFrom(_, _, _)
ClickFrom(c, k, done) ==
    IF k > Len(Candidates)
    THEN [clicked |-> done, by |-> "none", err |-> COULD_NOT_TRIGGER]
    ELSE LET sel == Candidates[k]
         IN  CASE ControlOf(c, sel) = "absent"   -> ClickFrom(c, k + 1, done)
               [] ControlOf(c, sel) = "timeout"  -> ClickFrom(c, k + 1, Append(done, sel))
               [] ControlOf(c, sel) = "download" ->
                     [clicked |-> Append(done, sel), by |-> sel, err |-> NoError]

\* pick_status_col_and_click_latest(page) on a table with header texts hs
\* whose first row holds cell c in the resolved column
PickStatusColAndClickLatest(hs, c) ==
    LET idx == StatusIdx(hs)
        r   == ClickFrom(CellAt(idx, c), 1, <<>>)
    IN  [status_idx |-> idx, clicked |-> r.clicked, by |-> r.by, err |-> r.err]

----------------------------------------------------------------------------
(* run_bot: the steps *)

\* the steps of the pipeline, in the order of the code
StepOrder ==
    <<"login", "navigate", "select", "date", "generate", "download", "save",
      "email", "close">>

USER_SELS    == <<"input[name=username]", "input[name=email]", "#username",
                  "#loginId", "input[type=text]">>
PASS_SELS    == <<"input[name=password]", "#password", "input[type=password]">>
SUBMIT_SELS  == <<"button[type=submit]", "button:has-text(Login)",
                  "button:has-text(Sign in)", "#login", "input[type=submit]">>
REPORTS_SELS == <<"a:has-text(Reports)", "button:has-text(Reports)",
                  "li:has-text(Reports) >> a", "text=Reports">>
OPENER_SELS  == <<"[role=combobox]", "div[aria-haspopup=listbox]",
                  "button:has-text(Select)", "text=Statement of">>
DATE_SELS    == <<"input[type=date]", "input[name*=date]", "#fromDate",
                  "#asOnDate", "input[placeholder*=Date]", "input[placeholder*=date]">>
EXEC_SELS    == <<"button:has-text(Execute)", "button:has-text(Generate)",
                  "button:has-text(Submit)", "input[type=submit]">>

\* the keys of yesterday_ist_formats(), in the order step 4 tries them
DATE_FORMATS == <<"yyyy_mm_dd", "dd_mmm_yyyy", "dd_mm_yyyy", "dd_mm_yyyy_dash">>

Range(f) == {f[i] : i \in DOMAIN f}

\* for sel in cands: if page.locator(sel).count() > 0: ...; break
\* the position of the first candidate the page matches, 0 for none (the
\* for loop's else branch); present is the set of selectors that match
FirstMatch(cands, present) ==
    IF \E i \in 1..Len(cands) : cands[i] \in present
    THEN CHOOSE i \in 1..Len(cands) :
             cands[i] \in present /\ \A j \in 1..(i - 1) : cands[j] \notin present
    ELSE 0

E_CONFIG   == "Missing PORTAL_USER or PORTAL_PASS. Set GitHub Secrets."
E_USER     == "Username field not found. Update selector."
E_PASS     == "Password field not found. Update selector."
E_LOGIN    == "Login button not found. Update selector."
E_REPORTS  == "Reports tab not found. Update selector."
E_SELECT   == "Could not select 'Statement of Capital Flows' in a <select>."
E_ITEM     == "Report option 'Statement of Capital Flows' not found."
E_EXEC     == "Execute/Generate button not found. Update selector."
E_PW       == "playwright error"

\* The Playwright call of a step that raises (a timeout, a closed page), or
\* "none"; a fault of a call the step does not reach has no effect.
PwFaults == {"none", "goto", "fill", "click", "press", "wait"}

\* mutant: the check written "is None", which lets "" through
CredsMissingIsNone(user, pass) == ~user.set \/ ~pass.set

\* if not PORTAL_USER or not PORTAL_PASS
CredsMissing(user, pass) == ~Truthy(user) \/ ~Truthy(pass)

\* step 1: goto, fill the username, fill the password, click submit, wait
LoginResult(present, fault) ==
    IF fault = "goto" THEN E_PW
    ELSE IF FirstMatch(USER_SELS, present) = 0 THEN E_USER
    ELSE IF fault = "fill" THEN E_PW
    ELSE IF FirstMatch(PASS_SELS, present) = 0 THEN E_PASS
    ELSE IF FirstMatch(SUBMIT_SELS, present) = 0 THEN E_LOGIN
    ELSE IF fault \in {"click", "wait"} THEN E_PW
    ELSE NoError

\* step 2: click the Reports tab, wait
NavigateResult(present, fault) ==
    IF FirstMatch(REPORTS_SELS, present) = 0 THEN E_REPORTS
    ELSE IF fault \in {"click", "wait"} THEN E_PW
    ELSE NoError

\* mutant: the custom dropdown tried after every <select> refused
SelectReportFallThrough(sels, present, item, fault) ==
    IF \E i \in 1..Len(sels) : sels[i]
    THEN [native |-> TRUE, custom |-> FALSE, err |-> NoError]
    ELSE LET opened == FirstMatch(OPENER_SELS, present) # 0
         IN  [native |-> Len(sels) > 0, custom |-> TRUE,
              err |-> IF opened /\ fault = "click" THEN E_PW
                      ELSE IF ~opened /\ fault = "press" THEN E_PW
                      ELSE IF ~item THEN E_ITEM
                      ELSE IF fault = "click" THEN E_PW
                      ELSE NoError]

\* step 3: sels[i] is TRUE when select_option(label=...) succeeds on the
\* i-th <select> and FALSE when it raises; present are the openers the page
\* matches; item tells whether one of the two text locators finds the item
SelectReport(sels, present, item, fault) ==
    IF Len(sels) > 0
    THEN [native |-> TRUE, custom |-> FALSE,
          err |-> IF \E i \in 1..Len(sels) : sels[i] THEN NoError ELSE E_SELECT]
    ELSE LET opened == FirstMatch(OPENER_SELS, present) # 0
         IN  [native |-> FALSE, custom |-> TRUE,
              err |-> IF opened /\ fault = "click" THEN E_PW
                      ELSE IF ~opened /\ fault = "press" THEN E_PW
                      ELSE IF ~item THEN E_ITEM
                      ELSE IF fault = "click" THEN E_PW
                      ELSE NoError]

\* step 4: present are the date selectors the page matches, accepted the
\* formats whose fill does not raise; every exception of a fill is caught
SetDate(present, accepted) ==
    /\ FirstMatch(DATE_SELS, present) # 0
    /\ FirstMatch(DATE_FORMATS, accepted) # 0

\* step 5: click Execute / Generate, wait
GenerateResult(present, fault) ==
    IF FirstMatch(EXEC_SELS, present) = 0 THEN E_EXEC
    ELSE IF fault \in {"click", "wait"} THEN E_PW
    ELSE NoError

\* mutant: a failure to click Execute is reported and the run goes on, as
\* for the date
NextPcGenerateGoesOn(step, err) ==
    IF err # NoError /\ step # "generate" THEN "failed"
    ELSE IF step = "close" THEN "done"
    ELSE LET i == CHOOSE i \in 1..Len(StepOrder) : StepOrder[i] = step
         IN  StepOrder[i + 1]

\* An exception leaves run_bot: the steps after the raising one are not run.
NextPc(step, err) ==
    IF err # NoError THEN "failed"
    ELSE IF step = "close" THEN "done"
    ELSE LET i == CHOOSE i \in 1..Len(StepOrder) : StepOrder[i] = step
         IN  StepOrder[i + 1]

\* what every step does to the position of run_bot: the step is recorded,
\* an exception is recorded and ends the with block of sync_playwright
Advance(step, err) ==
    /\ pc' = NextPc(step, err)
    /\ steps' = Append(steps, step)
    /\ error' = IF err # NoError THEN err ELSE error
    /\ failedStep' = IF err # NoError THEN step ELSE failedStep
    /\ playwright' = IF NextPc(step, err) \in {"failed", "done"}
                     THEN "stopped" ELSE playwright

\* context.close(); browser.close(): fault names the call that raises
CloseFaults == {"none", "context", "browser"}

CloseResult(fault) == IF fault = "none" THEN NoError ELSE E_PW

----------------------------------------------------------------------------
(* The inputs drawn *)

SeqsUpTo(S, n) == UNION {[1..k -> S] : k \in 0..n}

Creds == {None, EnvStr(<<>>), EnvStr(<<"u">>)}

ToChars   == {" ", ",", "a"}
ToStrings == SeqsUpTo(ToChars, MaxToLen)

\* header texts: with "status" in another case and padded, and without it
HeaderTexts ==
    { <<"S", "t", "a", "t", "u", "s">>,
      <<" ", "J", "o", "b", " ", "S", "T", "A", "T", "U", "S", " ">>,
      <<"N", "a", "m", "e">>,
      <<"S", "t", "a", "t", "e">> }
HeaderSeqs == SeqsUpTo(HeaderTexts, MaxCols)

Cells == {NoRow} \cup {[row |-> TRUE, ctl |-> f] : f \in [ControlTypes -> ControlStates]}

SelectSeqs == SeqsUpTo(BOOLEAN, MaxSelects)

\* suggested file names of a download
PlainNames ==
    { <<"r", ".", "p", "d", "f">>, <<"r", ".", "P", "D", "F">>,
      <<"r", ".", "x", "l", "s", "x">>, <<"r", ".", "c", "s", "v">>, <<"r">> }
ZipNames == { <<"r", ".", "z", "i", "p">>, <<"R", ".", "Z", "I", "P">> }

\* entries of an archive: a directory entry ends in "/" and holds nothing
DirNames  == { <<"d", "/">> }
FileNames ==
    { <<"a", ".", "p", "d", "f">>, <<"d", "/", "b", ".", "x", "l", "s", "x">>,
      <<"d", "/", "a", ".", "c", "s", "v">>, <<"n">> }
DataValues == {1, 2}
Entries ==
    {[name |-> n, data |-> 0] : n \in DirNames}
        \cup {[name |-> n, data |-> d] : n \in FileNames, d \in DataValues}

\* archives of at most n entries, no two of one name
Archives(n) ==
    {es \in SeqsUpTo(Entries, n) :
        \A i, j \in 1..Len(es) : es[i].name = es[j].name => i = j}

\* a download whose name ends in .zip is an archive, any other a plain file
DownloadsOf(n) ==
    {[suggested_filename |-> f, content |-> FileData(d)] :
        f \in PlainNames, d \in DataValues}
        \cup {[suggested_filename |-> f, content |-> ZipData(es)] :
                 f \in ZipNames, es \in Archives(n)}

Downloads == DownloadsOf(MaxEntries)

\* the paths save_download can return
AttachPaths ==
    {JoinPath(DOWNLOAD_DIR, f) : f \in PlainNames}
        \cup {JoinPath(DOWNLOAD_DIR, PathName(f)) : f \in FileNames}

\* run_bot draws the short cases of the helpers' inputs
RunEmailTo   == {s \in ToStrings : Len(s) <= 1}
RunHeaders   == {hs \in HeaderSeqs : Len(hs) <= 1}
RunDownloads == {d \in DownloadsOf(1) : d.content.kind = "data" => d.content.data = 1}

----------------------------------------------------------------------------
(* Initial states *)

NoPick == [by |-> "none", err |-> NoError]

IdleCfg ==
    /\ PORTAL_USER = None
    /\ PORTAL_PASS = None
    /\ EMAIL_TO = <<>>

IdleRun ==
    /\ steps = <<>>
    /\ error = NoError
    /\ failedStep = "none"
    /\ playwright = "none"
    /\ browser = "none"
    /\ context = "none"
    /\ gotos = 0
    /\ selects = <<>>
    /\ nativeTried = FALSE
    /\ customTried = FALSE
    /\ dateSet = FALSE

IdleFiles ==
    /\ download = NoDownload
    /\ fs = <<>>
    /\ saved = NoPath

IdleMail ==
    /\ smtpLog = <<>>
    /\ sent = FALSE
    /\ subtype = "none"
    /\ recipients = <<>>

IdlePick ==
    /\ headers = <<>>
    /\ cell = NoRow
    /\ status_idx = 0
    /\ clicked = <<>>
    /\ pickResult = NoPick

\* the module is loaded with its configuration read; run_bot is entered
Init ==
    /\ PORTAL_USER \in Creds
    /\ PORTAL_PASS \in Creds
    /\ EMAIL_TO \in RunEmailTo
    /\ pc = "start"
    /\ IdleRun /\ IdleFiles /\ IdleMail /\ IdlePick

----------------------------------------------------------------------------
(* run_bot: the actions *)

\* the credential check, then sync_playwright(), launch, new_context, new_page
Start ==
    /\ pc = "start"
    /\ IF CredsMissing(PORTAL_USER, PORTAL_PASS)
       THEN /\ pc' = "failed"
            /\ error' = E_CONFIG
            /\ failedStep' = "config"
            /\ UNCHANGED <<playwright, browser, context>>
       ELSE \E launched \in BOOLEAN :
                /\ pc' = IF launched THEN "login" ELSE "failed"
                /\ error' = IF launched THEN NoError ELSE E_PW
                /\ failedStep' = IF launched THEN "none" ELSE "launch"
                /\ playwright' = IF launched THEN "running" ELSE "stopped"
                /\ browser' = IF launched THEN "open" ELSE "none"
                /\ context' = IF launched THEN "open" ELSE "none"
    /\ UNCHANGED <<steps, gotos, selects, nativeTried, customTried, dateSet>>
    /\ UNCHANGED <<cfgVars, fileVars, mailVars, pickVars>>

Login ==
    /\ pc = "login"
    /\ \E present \in SUBSET (Range(USER_SELS) \cup Range(PASS_SELS) \cup Range(SUBMIT_SELS)),
          fault \in PwFaults :
            Advance("login", LoginResult(present, fault))
    /\ gotos' = gotos + 1
    /\ UNCHANGED <<browser, context, selects, nativeTried, customTried, dateSet>>
    /\ UNCHANGED <<cfgVars, fileVars, mailVars, pickVars>>

Navigate ==
    /\ pc = "navigate"
    /\ \E present \in SUBSET Range(REPORTS_SELS), fault \in PwFaults :
            Advance("navigate", NavigateResult(present, fault))
    /\ UNCHANGED <<browser, context, gotos, selects, nativeTried, customTried, dateSet>>
    /\ UNCHANGED <<cfgVars, fileVars, mailVars, pickVars>>

ChooseReport ==
    /\ pc = "select"
    /\ \E sels \in SelectSeqs, present \in SUBSET Range(OPENER_SELS),
          item \in BOOLEAN, fault \in PwFaults :
            LET r == SelectReport(sels, present, item, fault)
            IN  /\ selects' = sels
                /\ nativeTried' = r.native
                /\ customTried' = r.custom
                /\ Advance("select", r.err)
    /\ UNCHANGED <<browser, context, gotos, dateSet>>
    /\ UNCHANGED <<cfgVars, fileVars, mailVars, pickVars>>

\* a date that could not be set is reported on stderr and the run goes on
SetDateStep ==
    /\ pc = "date"
    /\ \E present \in SUBSET Range(DATE_SELS), accepted \in SUBSET Range(DATE_FORMATS) :
            dateSet' = SetDate(present, accepted)
    /\ Advance("date", NoError)
    /\ UNCHANGED <<browser, context, gotos, selects, nativeTried, customTried>>
    /\ UNCHANGED <<cfgVars, fileVars, mailVars, pickVars>>

TriggerGeneration ==
    /\ pc = "generate"
    /\ \E present \in SUBSET Range(EXEC_SELS), fault \in PwFaults :
            Advance("generate", GenerateResult(present, fault))
    /\ UNCHANGED <<browser, context, gotos, selects, nativeTried, customTried, dateSet>>
    /\ UNCHANGED <<cfgVars, fileVars, mailVars, pickVars>>

\* download = pick_status_col_and_click_latest(page); d is the file the
\* portal serves when a click yields a download
Download ==
    /\ pc = "download"
    /\ \E hs \in RunHeaders, c \in Cells, d \in RunDownloads, fault \in {"none", "wait"} :
            LET r == PickStatusColAndClickLatest(hs, c)
                err == IF fault = "wait" THEN E_PW ELSE r.err
            IN  /\ download' = IF err = NoError THEN d ELSE NoDownload
                /\ Advance("download", err)
    /\ UNCHANGED <<browser, context, gotos, selects, nativeTried, customTried, dateSet>>
    /\ UNCHANGED <<fs, saved>>
    /\ UNCHANGED <<cfgVars, mailVars, pickVars>>

\* saved = save_download(download, DOWNLOAD_DIR)
Save ==
    /\ pc = "save"
    /\ LET r == SaveDownload(download, DOWNLOAD_DIR, fs)
       IN  /\ fs' = r.fs
           /\ saved' = r.ret
           /\ Advance("save", r.err)
    /\ UNCHANGED <<browser, context, gotos, selects, nativeTried, customTried, dateSet>>
    /\ UNCHANGED download
    /\ UNCHANGED <<cfgVars, mailVars, pickVars>>

\* send_email(subject, body, attach_path=saved)
Email ==
    /\ pc = "email"
    /\ \E fault \in SmtpFaults :
            LET r == SendEmail(EMAIL_TO, saved, fs, fault)
            IN  /\ smtpLog' = r.log
                /\ sent' = r.sent
                /\ subtype' = r.subtype
                /\ recipients' = r.recipients
                /\ Advance("email", r.err)
    /\ UNCHANGED <<browser, context, gotos, selects, nativeTried, customTried, dateSet>>
    /\ UNCHANGED <<cfgVars, fileVars, pickVars>>

\* context.close(); browser.close(), the last statements of the with block
Close ==
    /\ pc = "close"
    /\ \E fault \in CloseFaults :
            /\ context' = IF fault = "context" THEN context ELSE "closed"
            /\ browser' = IF fault = "none" THEN "closed" ELSE browser
            /\ Advance("close", CloseResult(fault))
    /\ UNCHANGED <<gotos, selects, nativeTried, customTried, dateSet>>
    /\ UNCHANGED <<cfgVars, fileVars, mailVars, pickVars>>

Next ==
    \/ Start
    \/ Login
    \/ Navigate
    \/ ChooseReport
    \/ SetDateStep
    \/ TriggerGeneration
    \/ Download
    \/ Save
    \/ Email
    \/ Close

Spec == Init /\ [][Next]_vars

----------------------------------------------------------------------------
(* pick_status_col_and_click_latest called on every table drawn *)

InitPick ==
    /\ headers \in HeaderSeqs
    /\ cell \in Cells
    /\ status_idx = 0
    /\ clicked = <<>>
    /\ pickResult = NoPick
    /\ pc = "pick"
    /\ IdleCfg /\ IdleRun /\ IdleFiles /\ IdleMail

PickCall ==
    /\ pc = "pick"
    /\ LET r == PickStatusColAndClickLatest(headers, cell)
       IN  /\ status_idx' = r.status_idx
           /\ clicked' = r.clicked
           /\ pickResult' = [by |-> r.by, err |-> r.err]
           /\ error' = r.err
           /\ pc' = IF r.err = NoError THEN "returned" ELSE "raised"
    /\ UNCHANGED <<headers, cell>>
    /\ UNCHANGED <<steps, failedStep, playwright, browser, context, gotos,
                   selects, nativeTried, customTried, dateSet>>
    /\ UNCHANGED <<cfgVars, fileVars, mailVars>>

NextPick == PickCall

SpecPick == InitPick /\ [][NextPick]_vars

----------------------------------------------------------------------------
(* save_download called on every download drawn, into an empty directory *)

InitSave ==
    /\ download \in Downloads
    /\ fs = <<>>
    /\ saved = NoPath
    /\ pc = "save"
    /\ IdleCfg /\ IdleRun /\ IdleMail /\ IdlePick

SaveCall ==
    /\ pc = "save"
    /\ LET r == SaveDownload(download, DOWNLOAD_DIR, fs)
       IN  /\ fs' = r.fs
           /\ saved' = r.ret
           /\ error' = r.err
           /\ pc' = IF r.err = NoError THEN "returned" ELSE "raised"
    /\ UNCHANGED download
    /\ UNCHANGED <<steps, failedStep, playwright, browser, context, gotos,
                   selects, nativeTried, customTried, dateSet>>
    /\ UNCHANGED <<cfgVars, mailVars, pickVars>>

NextSave == SaveCall

SpecSave == InitSave /\ [][NextSave]_vars

----------------------------------------------------------------------------
(* send_email called with every EMAIL_TO and attachment drawn *)

InitEmail ==
    /\ EMAIL_TO \in ToStrings
    /\ PORTAL_USER = None
    /\ PORTAL_PASS = None
    /\ saved \in AttachPaths
    /\ fs = WriteFile(<<>>, saved, FileData(1))
    /\ download = NoDownload
    /\ pc = "email"
    /\ IdleRun /\ IdleMail /\ IdlePick

SendCall ==
    /\ pc = "email"
    /\ \E fault \in SmtpFaults :
            LET r == SendEmail(EMAIL_TO, saved, fs, fault)
            IN  /\ smtpLog' = r.log
                /\ sent' = r.sent
                /\ subtype' = r.subtype
                /\ recipients' = r.recipients
                /\ error' = r.err
                /\ pc' = IF r.err = NoError THEN "returned" ELSE "raised"
    /\ UNCHANGED <<steps, failedStep, playwright, browser, context, gotos,
                   selects, nativeTried, customTried, dateSet>>
    /\ UNCHANGED <<cfgVars, fileVars, pickVars>>

NextEmail == SendCall

SpecEmail == InitEmail /\ [][NextEmail]_vars

----------------------------------------------------------------------------
(* Properties of run_bot, checked under Spec *)

Terminated == pc \in {"done", "failed"}

Executed(step) == step \in Range(steps)

\* an environment value that is absent (None) or empty
Absent(x) == ~x.set \/ Len(x.val) = 0

\* C1: when PORTAL_USER or PORTAL_PASS is absent or empty, run_bot fails
\* with the configuration error before any navigation: no browser is
\* launched, no page.goto happens, no download is saved, no email is sent.
C1_MissingCredentialsFailFirst ==
    (Absent(PORTAL_USER) \/ Absent(PORTAL_PASS)) =>
        /\ pc \in {"start", "failed"}
        /\ pc = "failed" => error = E_CONFIG /\ failedStep = "config"
        /\ playwright = "none" /\ browser = "none" /\ context = "none"
        /\ gotos = 0
        /\ steps = <<>>
        /\ download = NoDownload /\ fs = <<>> /\ saved = NoPath
        /\ smtpLog = <<>> /\ ~sent

\* C1 witness: a run with an empty (not absent) password has failed
C1_Witness ==
    /\ PORTAL_USER = EnvStr(<<"u">>)
    /\ PORTAL_PASS = EnvStr(<<>>)
    /\ pc = "failed"
    /\ error = E_CONFIG

\* the steps begun are an initial part of the pipeline, each begun once
LinearSteps ==
    /\ Len(steps) <= Len(StepOrder)
    /\ steps = SubSeq(StepOrder, 1, Len(steps))

\* no step after the given one was begun
NothingAfter(step) ==
    \A i, j \in 1..Len(StepOrder) :
        StepOrder[i] = step /\ i < j => ~Executed(StepOrder[j])

\* the date step is over and left no date set
DateFailed == Len(steps) >= 4 /\ steps[4] = "date" /\ ~dateSet

\* C2 as stated: the flow is linear with no retry, and the failure of any
\* step, Set Date included, aborts the run: no later step is executed.
C2_AnyFailureAborts ==
    /\ LinearSteps
    /\ \A i \in 1..Len(StepOrder) : failedStep = StepOrder[i] => NothingAfter(StepOrder[i])
    /\ DateFailed => NothingAfter("date")

\* C2 amended: the flow is linear with no retry; a step that raises aborts
\* the run with no later step executed; Set Date never raises: when no date
\* input can be filled the run goes on to Trigger Generation.
C2_FailureAbortsExceptDate ==
    /\ LinearSteps
    /\ \A i \in 1..Len(StepOrder) :
          failedStep = StepOrder[i] =>
              /\ pc = "failed"
              /\ steps[Len(steps)] = StepOrder[i]
              /\ NothingAfter(StepOrder[i])
    /\ failedStep # "date"
    /\ DateFailed /\ Len(steps) = 4 => pc = "generate"
    /\ pc = "failed" => failedStep # "none"

\* C2 witness: the date was not set, the run went on, and the failure of
\* Trigger Generation ended it
C2_Witness ==
    /\ DateFailed
    /\ failedStep = "generate"
    /\ pc = "failed"
    /\ steps = SubSeq(StepOrder, 1, 5)

\* EMAIL_TO holds nothing but whitespace
BlankTo == \A i \in 1..Len(EMAIL_TO) : EMAIL_TO[i] = Space

NoneOffers == \A i \in 1..Len(selects) : ~selects[i]

\* C4 as stated: the step fails only when neither strategy locates the
\* report, so a page whose <select> elements all lack it still has the
\* custom dropdown attempted.
C4_CustomTriedAfterNative ==
    Executed("select") /\ Len(selects) > 0 /\ NoneOffers => customTried

\* C4 amended: one strategy is used, chosen by whether the page has a
\* <select>: with one or more, only the native selection is attempted and
\* the step fails when none offers the report; the custom dropdown is
\* attempted only on a page without any <select>.
C4_OneStrategyByPage ==
    Executed("select") =>
        /\ nativeTried <=> Len(selects) > 0
        /\ customTried <=> Len(selects) = 0
        /\ Len(selects) > 0 /\ NoneOffers => failedStep = "select" /\ error = E_SELECT
        /\ Len(selects) > 0 /\ ~NoneOffers => failedStep # "select"

\* C4 witness: two <select> elements, neither offering the report
C4_Witness ==
    /\ Len(selects) = 2
    /\ NoneOffers
    /\ failedStep = "select"
    /\ ~customTried

\* C10: when the browser was launched, context.close() and browser.close()
\* have both been executed by the time run_bot ends, normally or not.
C10_ClosedOnEveryExit ==
    Terminated /\ browser # "none" => context = "closed" /\ browser = "closed"

----------------------------------------------------------------------------
(* Properties of pick_status_col_and_click_latest, checked under SpecPick *)

\* the header text contains "status" in some letter case
HasStatus(h) ==
    \E i \in 1..(Len(h) - 5) :
        \A k \in 1..6 : LowerChar(h[i + k - 1]) = S_status[k]

StatusHeaders == {i \in 1..Len(headers) : HasStatus(headers[i])}

\* C5: with N header columns, the resolved index is the 1-based position of
\* the header containing "status" (the first of them when there are
\* several) and N when no header contains it.
C5_StatusColumnIndex ==
    pc # "pick" =>
        /\ StatusHeaders = {} => status_idx = Len(headers)
        /\ StatusHeaders # {} =>
              /\ status_idx \in StatusHeaders
              /\ \A j \in StatusHeaders : status_idx <= j

\* C5 witness: three columns, the second the only one with "status"
C5_Witness ==
    /\ pc # "pick"
    /\ Len(headers) = 3
    /\ StatusHeaders = {2}
    /\ status_idx = 2

\* the order in which the control types are to be tried
LinkButtonIconSpan == <<"a", "button", "i", "span">>

\* the Status cell of the first row, when there is one
StatusCell == IF Len(headers) = 0 THEN NoRow ELSE cell

CtlPresent(t) == StatusCell.ctl[t] # "absent"
CtlYields(t)  == StatusCell.ctl[t] = "download"

\* the position of the first control that yields a download, 5 for none
FirstYield ==
    IF \E k \in 1..4 : CtlYields(LinkButtonIconSpan[k])
    THEN CHOOSE k \in 1..4 :
             /\ CtlYields(LinkButtonIconSpan[k])
             /\ \A m \in 1..(k - 1) : ~CtlYields(LinkButtonIconSpan[m])
    ELSE 5

----------------------------------------------------------------------------
(* Properties of send_email, checked under SpecEmail *)

\* EMAIL_TO parses to no recipient: it holds only commas and whitespace
NoRecipientIn(to) == \A i \in 1..Len(to) : to[i] \in {",", Space}

\* C7: when the parsed recipient list is empty, send_email makes no network
\* call (no SMTP connection, login or send_message) and returns without
\* error.
C7_NoRecipientNoNetwork ==
    pc # "email" /\ NoRecipientIn(EMAIL_TO) =>
        /\ smtpLog = <<>>
        /\ ~sent
        /\ pc = "returned"
        /\ error = NoError

IsPdf(path)  == EndsWith(Lower(path.name), S_pdf) /\ Len(path.name) > 4
IsXlsx(path) == EndsWith(Lower(path.name), S_xlsx) /\ Len(path.name) > 5

Attached == pc # "email" /\ subtype # "none"

\* C9 as stated: .pdf gets the PDF subtype, .xlsx the spreadsheet subtype
\* and any other extension a generic binary subtype, never one of the two.
C9_ThreeSubtypes ==
    Attached =>
        /\ IsPdf(saved) => subtype = SUBTYPE_PDF
        /\ IsXlsx(saved) => subtype = SUBTYPE_XLSX
        /\ ~IsPdf(saved) /\ ~IsXlsx(saved) => subtype \notin {SUBTYPE_PDF, SUBTYPE_XLSX}

\* C9 amended: the subtype is inferred in two ways: a file whose extension
\* is .pdf, in any letter case, gets the PDF subtype and every other file
\* (.xlsx, .csv, no extension) gets the spreadsheet subtype.
C9_TwoSubtypes ==
    /\ Attached =>
          /\ IsPdf(saved) => subtype = SUBTYPE_PDF
          /\ ~IsPdf(saved) => subtype = SUBTYPE_XLSX
    /\ pc # "email" /\ ~BlankTo => subtype # "none"

\* C9 witness: a .csv file sent with the spreadsheet subtype
C9_Witness ==
    /\ pc = "returned"
    /\ sent
    /\ saved.name = <<"a", ".", "c", "s", "v">>
    /\ subtype = SUBTYPE_XLSX

----------------------------------------------------------------------------
(* Properties of save_download, checked under SpecSave *)

OutPath == [dir |-> DOWNLOAD_DIR, name |-> download.suggested_filename]

IsDirEntry(e) == e.name[Len(e.name)] = "/"

FileEntries ==
    IF download.content.kind = "zip"
    THEN {i \in 1..Len(download.content.entries) : ~IsDirEntry(download.content.entries[i])}
    ELSE {}

\* b is the base file name of the entry name n: what follows its last slash
IsBaseName(b, n) ==
    /\ \A i \in 1..Len(b) : b[i] # "/"
    /\ \/ b = n
       \/ /\ Len(b) < Len(n)
          /\ n[Len(n) - Len(b)] = "/"
          /\ SubSeq(n, Len(n) - Len(b) + 1, Len(n)) = b

====
